---- MODULE Spec2Model ----
(***************************************************************************)
(* Model of the teacher-substitution server (src/server.js): the helpers   *)
(* normalizeDay and extractSubjectCode, the resolution core                *)
(* findSubstitutes with its four queries against the relational store,     *)
(* and the attendance-update route that mutates the store.  The routes     *)
(* that only read the store (/api/ping, /api/teachers, /api/debug/...)     *)
(* change no state and are left out.                                       *)
(*                                                                         *)
(* Text is modelled as a sequence of one-character strings, so that trim,  *)
(* case conversion, slicing, splitting and comparison are computed on the  *)
(* characters as the code computes them.  NULL (SQL) / null, undefined     *)
(* (JavaScript) is the one-element sequence Null, which no text equals.    *)
(***************************************************************************)
EXTENDS Integers, Sequences, FiniteSets, TLC

VARIABLES
    teacher_attendance,   \* table teacher_attendance: set of rows
    teacher_timetable,    \* table teacher_timetable: set of rows
    pc,                   \* position of the findSubstitutes invocation
    absentTeacherIdRaw,   \* arguments of the invocation
    targetDayRaw,
    absentTeacherId,      \* locals of the invocation
    targetDay,
    attRows,
    absentTeacherSubjectDetail,
    classes,
    issued,               \* queries issued by the invocation, in order
    failedQuery,          \* the query whose read failed, or "none"
    result,               \* what the invocation returned or threw
    previous,             \* the preceding invocation's arguments and report
    dayIn,                \* argument and result of a normalizeDay call
    dayOut

vars == <<teacher_attendance, teacher_timetable, pc, absentTeacherIdRaw,
          targetDayRaw, absentTeacherId, targetDay, attRows,
          absentTeacherSubjectDetail, classes, issued, failedQuery, result,
          previous, dayIn, dayOut>>

(***************************************************************************)
(* Text                                                                    *)
(***************************************************************************)
Null == <<"NULL">>

LowerLetters == <<"a","b","c","d","e","f","g","h","i","j","k","l","m",
                  "n","o","p","q","r","s","t","u","v","w","x","y","z">>

UpperLetters == <<"A","B","C","D","E","F","G","H","I","J","K","L","M",
                  "N","O","P","Q","R","S","T","U","V","W","X","Y","Z">>

Digits == <<"0","1","2","3","4","5","6","7","8","9">>

\* The characters of the model in code-point order.
CodePoints == <<" ", "!", "(", ")", ",", "-", "/">> \o Digits \o <<":">>
              \o UpperLetters \o <<"_">> \o LowerLetters \o <<"|">>

IndexOf(c, chars) == CHOOSE i \in 1..Len(chars) : chars[i] = c

InSeq(c, chars) == \E i \in 1..Len(chars) : chars[i] = c

UpperChar(c) == IF InSeq(c, LowerLetters) THEN UpperLetters[IndexOf(c, LowerLetters)] ELSE c

LowerChar(c) == IF InSeq(c, UpperLetters) THEN LowerLetters[IndexOf(c, UpperLetters)] ELSE c

\* String.prototype.toUpperCase, SQL UPPER (NULL stays NULL)
Upper(s) == IF s = Null THEN Null ELSE [i \in 1..Len(s) |-> UpperChar(s[i])]

\* SQL LOWER
Lower(s) == IF s = Null THEN Null ELSE [i \in 1..Len(s) |-> LowerChar(s[i])]

RECURSIVE TrimLeft(_)
TrimLeft(s) == IF s /= <<>> /\ Head(s) = " " THEN TrimLeft(Tail(s)) ELSE s

RECURSIVE TrimRight(_)
TrimRight(s) ==
    IF s /= <<>> /\ s[Len(s)] = " " THEN TrimRight(SubSeq(s, 1, Len(s) - 1)) ELSE s

\* String.prototype.trim, SQL TRIM (NULL stays NULL)
Trim(s) == IF s = Null THEN Null ELSE TrimRight(TrimLeft(s))

\* String.prototype.slice(0, n)
Slice0(s, n) == SubSeq(s, 1, IF Len(s) < n THEN Len(s) ELSE n)

\* Whether text t occurs in s at position i.
OccursAt(s, t, i) == i + Len(t) - 1 <= Len(s) /\ SubSeq(s, i, i + Len(t) - 1) = t

\* Position of the first occurrence of t in s, 0 if none.
FirstIndex(s, t) ==
    IF \E i \in 1..Len(s) : OccursAt(s, t, i)
    THEN CHOOSE i \in 1..Len(s) :
            OccursAt(s, t, i) /\ \A j \in 1..(i - 1) : ~OccursAt(s, t, j)
    ELSE 0

\* Comparison of two texts by code point, as ORDER BY compares them.
RECURSIVE TextLess(_, _)
TextLess(a, b) ==
    IF b = <<>> THEN FALSE
    ELSE IF a = <<>> THEN TRUE
    ELSE IF Head(a) = Head(b) THEN TextLess(Tail(a), Tail(b))
    ELSE IndexOf(Head(a), CodePoints) < IndexOf(Head(b), CodePoints)

(***************************************************************************)
(* normalizeDay                                                            *)
(***************************************************************************)
\* A value JavaScript treats as false: here the empty text and null/undefined.
Falsy(v) == v = Null \/ v = <<>>

ThursdaySpellings == { <<"T","H","U">>, <<"T","H","U","R">>, <<"T","H","U","R","S">>,
                       <<"T","H","U","R","S","D","A","Y">> }

\* normalizeDay with the trim left out.
normalizeDayUntrimmed(d) ==
    IF Falsy(d) THEN d
    ELSE LET up == Upper(d)
         IN  IF up \in ThursdaySpellings THEN <<"T","H","U","R">> ELSE Slice0(up, 3)

normalizeDay(d) ==
    IF Falsy(d) THEN d
    ELSE LET up == Upper(Trim(d))
         IN  IF up \in ThursdaySpellings THEN <<"T","H","U","R">> ELSE Slice0(up, 3)

(***************************************************************************)
(* extractSubjectCode                                                      *)
(***************************************************************************)
WordChars == UpperLetters \o LowerLetters \o Digits \o <<"_">>

UpperWordChars == UpperLetters \o Digits \o <<"_">>

\* s.split(' - ')[0]; SQL SUBSTRING_INDEX(s, ' - ', 1): the text before the
\* first separator, the whole text if there is none.
FirstSegment(s) ==
    LET at == FirstIndex(s, <<" ", "-", " ">>)
    IN  IF at = 0 THEN s ELSE SubSeq(s, 1, at - 1)

\* /^[A-Z0-9_]+$/.test(t)
IsCodeToken(t) == t /= <<>> /\ \A i \in 1..Len(t) : InSeq(t[i], UpperWordChars)

\* The longest run of word characters at the start of s.
RECURSIVE LeadingRun(_)
LeadingRun(s) ==
    IF s /= <<>> /\ InSeq(Head(s), WordChars) THEN <<Head(s)>> \o LeadingRun(Tail(s)) ELSE <<>>

NotAvailable == <<"N", "/", "A">>

extractSubjectCode(activityDescription) ==
    IF Falsy(activityDescription) THEN NotAvailable
    ELSE LET s == Trim(activityDescription)
             codeCandidate == Upper(Trim(FirstSegment(s)))
             \* s.match(/^\s*([A-Za-z0-9_]+)/): s is trimmed, \s* matches nothing
             m == LeadingRun(TrimLeft(s))
         IN  IF FirstSegment(s) /= <<>> /\ IsCodeToken(codeCandidate) THEN codeCandidate
             ELSE IF m /= <<>> THEN Upper(m)
             ELSE NotAvailable

(***************************************************************************)
(* The store.  teacher_attendance and teacher_timetable are variables; the *)
(* tables no handler writes and no claim varies are fixed.                 *)
(***************************************************************************)
\* SQL comparison: unknown (here false) when either side is NULL.
SqlEq(a, b) == a /= Null /\ b /= Null /\ a = b

SqlNe(a, b) == a /= Null /\ b /= Null /\ a /= b

IfNull(a, b) == IF a = Null THEN b ELSE a

T1 == <<"T", "1">>
t1 == <<"t", "1">>
T2 == <<"T", "2">>
t2 == <<"t", "2">>
T3 == <<"T", "3">>
T4 == <<"T", "4">>
t9 == <<"t", "9">>

MON == <<"M", "O", "N">>
Mon == <<"M", "o", "n">>
TUE == <<"T", "U", "E">>

MaLab == <<"M", "A", " ", "-", " ", "L", "a", "b">>
InCls == <<"i", "n", " ", "c", "l", "s">>
PadMa == <<" ", "M", "A", " ", "-", " ", "x">>
PhY == <<"P", "H", " ", "-", " ", "y">>

R1 == <<"R", "1">>

time_slots == { [slot_id |-> 1, time_range |-> <<"0", "9", ":", "0", "0">>],
                [slot_id |-> 2, time_range |-> <<"1", "0", ":", "0", "0">>] }

teacher_subject_assignment ==
    { [teacher_id |-> T1, subject_code |-> <<"P", "H">>],
      [teacher_id |-> T1, subject_code |-> <<"M", "A">>],
      [teacher_id |-> T2, subject_code |-> <<" ", "m", "a", " ">>],
      [teacher_id |-> T3, subject_code |-> <<"I", "N">>] }

subjects == { [subject_code |-> <<"M", "A">>, subject_name |-> <<"M", "a", "t", "h", "s">>],
              [subject_code |-> <<"I", "N">>, subject_name |-> <<"I", "n", "t", "r", "o">>] }

\* The rows teacher_attendance starts with.
InitialAttendance ==
    { [teacher_id |-> T1, teacher_name |-> <<"D", "e", "v">>,
       attendance |-> <<" ", "A", "b", "s", "e", "n", "t", " ">>],
      [teacher_id |-> t2, teacher_name |-> <<"B", "i", "n", "a">>,
       attendance |-> <<" ", "p", "r", "e", "s", "e", "n", "t">>],
      [teacher_id |-> T3, teacher_name |-> <<"B", "i", "n", "a">>,
       attendance |-> <<"P", "R", "E", "S", "E", "N", "T">>],
      [teacher_id |-> T4, teacher_name |-> <<"A", "b", "e">>,
       attendance |-> <<"P", "r", "e", "s", "e", "n", "t">>] }

TimetableRow(t, d, s, a, r, f) ==
    [teacher_id |-> t, day_of_week |-> d, slot_id |-> s,
     activity_description |-> a, room_location |-> r, is_free |-> f]

\* The rows a timetable of the model is drawn from.
TimetableRows ==
    { TimetableRow(t1, Mon, 1, MaLab, R1, FALSE),
      TimetableRow(t1, Mon, 1, InCls, <<>>, FALSE),
      TimetableRow(t1, Mon, 1, Null, Null, TRUE),
      TimetableRow(t1, MON, 2, MaLab, R1, FALSE),
      TimetableRow(t1, MON, 2, PadMa, Null, FALSE),
      TimetableRow(t1, MON, 2, Null, R1, FALSE),
      TimetableRow(t1, TUE, 1, InCls, R1, FALSE),
      TimetableRow(T2, Mon, 1, Null, Null, TRUE),
      TimetableRow(T2, MON, 1, PhY, R1, FALSE),
      TimetableRow(T2, MON, 2, PhY, R1, FALSE),
      TimetableRow(T2, TUE, 1, PhY, R1, FALSE),
      TimetableRow(T3, MON, 1, InCls, R1, FALSE),
      TimetableRow(T3, Mon, 2, Null, Null, TRUE) }

\* teacher_timetable holds one row per teacher, day and slot.
UniqueEntries(rows) ==
    \A a, b \in rows :
        (Lower(a.teacher_id) = Lower(b.teacher_id)
         /\ Upper(a.day_of_week) = Upper(b.day_of_week)
         /\ a.slot_id = b.slot_id) => a = b

(***************************************************************************)
(* The queries of findSubstitutes                                          *)
(***************************************************************************)
\* The texts of set S in ascending order (GROUP_CONCAT ... ORDER BY).
RECURSIVE SortedTexts(_)
SortedTexts(S) ==
    IF S = {} THEN <<>>
    ELSE LET least == CHOOSE x \in S : \A y \in S : ~TextLess(y, x)
         IN  <<least>> \o SortedTexts(S \ {least})

\* GROUP_CONCAT's joining of the texts with a separator.
RECURSIVE Join(_, _)
Join(texts, sep) ==
    IF texts = <<>> THEN <<>>
    ELSE IF Len(texts) = 1 THEN texts[1]
    ELSE texts[1] \o sep \o Join(Tail(texts), sep)

\* subjectsAggCTE: one row per teacher_id of teacher_subject_assignment.
subjectsAggCTE ==
    { LET grp == { r \in teacher_subject_assignment : r.teacher_id = g }
          codes == SortedTexts({ r.subject_code : r \in grp })
          named(c) == { s \in subjects : SqlEq(s.subject_code, c) }
          detail(c) ==
              IF named(c) = {} THEN { c \o <<" ", "-", " ">> }
              ELSE { c \o <<" ", "-", " ">> \o IfNull(s.subject_name, <<>>) : s \in named(c) }
          details == [i \in 1..Len(codes) |-> Join(SortedTexts(detail(codes[i])), <<" ", "|", " ">>)]
      IN  [teacher_id |-> g,
           subjects_codes |-> Join(codes, <<",", " ">>),
           subjects_detail |-> Join(details, <<" ", "|", " ">>)]
      : g \in { r.teacher_id : r \in teacher_subject_assignment } }

\* LIMIT 1 of an unordered result: no row, or any one of the rows.
LimitOne(rows) == IF rows = {} THEN { <<>> } ELSE { <<r>> : r \in rows }

\* qAttendance: the possible results of the attendance-status lookup.
qAttendance(id) ==
    LimitOne({ [teacher_name |-> r.teacher_name, attendance |-> r.attendance] :
               r \in { x \in teacher_attendance : SqlEq(Lower(x.teacher_id), Lower(id)) } })

SubjectsNotAssigned == <<"S", "u", "b", "j", "e", "c", "t", "(", "s", ")", " ",
                         "N", "o", "t", " ", "A", "s", "s", "i", "g", "n", "e", "d">>

\* qAbsentTeacherInfo: the possible results of the subject-detail lookup.
qAbsentTeacherInfo(id) ==
    LET tas == { x \in teacher_attendance : SqlEq(Lower(x.teacher_id), Lower(id)) }
        joined(ta) == { sa \in subjectsAggCTE : SqlEq(Lower(sa.teacher_id), Lower(ta.teacher_id)) }
        rowsOf(ta) ==
            IF joined(ta) = {}
            THEN { [teacher_name |-> ta.teacher_name,
                    absent_teacher_subject_detail |-> SubjectsNotAssigned] }
            ELSE { [teacher_name |-> ta.teacher_name,
                    absent_teacher_subject_detail |->
                        IfNull(sa.subjects_detail, IfNull(sa.subjects_codes, SubjectsNotAssigned))]
                   : sa \in joined(ta) }
    IN  LimitOne(UNION { rowsOf(ta) : ta \in tas })

\* The rows both qClasses and the subquery c of qSubs select: the non-free
\* entries of the teacher on the day, joined to their time slot.
CoverageRows(id, day) ==
    { [absent_teacher_id |-> tt.teacher_id,
       day_of_week |-> tt.day_of_week,
       slot_id |-> tt.slot_id,
       time_range |-> ts.time_range,
       class_to_cover |-> tt.activity_description,
       room_location |-> tt.room_location]
      : <<tt, ts>> \in { p \in teacher_timetable \X time_slots :
                          /\ p[2].slot_id = p[1].slot_id
                          /\ SqlEq(Lower(p[1].teacher_id), Lower(id))
                          /\ SqlEq(Upper(p[1].day_of_week), Upper(day))
                          /\ p[1].is_free = FALSE } }

\* (UPPER(IFNULL(tt.activity_description, '')) LIKE '%LAB%')
IsLab(desc) == FirstIndex(Upper(IfNull(desc, <<>>)), <<"L", "A", "B">>) > 0

\* Every sequence that holds each row of S once and is ascending by slot_id.
RECURSIVE BySlot(_)
BySlot(S) ==
    IF S = {} THEN { <<>> }
    ELSE UNION { { <<r>> \o rest : rest \in BySlot(S \ {r}) }
                 : r \in { x \in S : \A y \in S : x.slot_id <= y.slot_id } }

\* qClasses: the possible results of the coverage-seed query.
qClasses(id, day) ==
    BySlot({ [absent_teacher_id |-> c.absent_teacher_id,
              day_of_week |-> c.day_of_week,
              slot_id |-> c.slot_id,
              time_range |-> c.time_range,
              class_to_cover |-> c.class_to_cover,
              room_location |-> c.room_location,
              is_lab |-> IsLab(c.class_to_cover)] : c \in CoverageRows(id, day) })

BestFit == "BEST FIT (Same Subject)"
GoodFit == "GOOD FIT (Free, Any Subject)"

\* The CASE of qSubs: the fitness tier of teacher s for class c.
substitution_priority(s, c) ==
    IF \E tsa \in teacher_subject_assignment :
          /\ SqlEq(Lower(tsa.teacher_id), Lower(s.teacher_id))
          /\ SqlEq(Upper(Trim(tsa.subject_code)),
                   Upper(IF c.class_to_cover = Null THEN Null
                         ELSE FirstSegment(c.class_to_cover)))
    THEN BestFit ELSE GoodFit

IsPresent(s) == SqlEq(Upper(Trim(s.attendance)), <<"P", "R", "E", "S", "E", "N", "T">>)

\* The EXISTS of qSubs: an explicit free entry of s for the class's day and slot.
HasFreeEntry(s, c) ==
    \E tt_free \in teacher_timetable :
        /\ SqlEq(Lower(tt_free.teacher_id), Lower(s.teacher_id))
        /\ SqlEq(Upper(tt_free.day_of_week), Upper(c.day_of_week))
        /\ tt_free.slot_id = c.slot_id
        /\ tt_free.is_free = TRUE

\* HasBusyEntry with the day condition left out.
HasBusyEntryAnyDay(s, c) ==
    \E tt_busy \in teacher_timetable :
        /\ SqlEq(Lower(tt_busy.teacher_id), Lower(s.teacher_id))
        /\ tt_busy.slot_id = c.slot_id
        /\ tt_busy.is_free = FALSE

\* The NOT EXISTS of qSubs: an explicit busy entry of s for the class's day and slot.
HasBusyEntry(s, c) ==
    \E tt_busy \in teacher_timetable :
        /\ SqlEq(Lower(tt_busy.teacher_id), Lower(s.teacher_id))
        /\ SqlEq(Upper(tt_busy.day_of_week), Upper(c.day_of_week))
        /\ tt_busy.slot_id = c.slot_id
        /\ tt_busy.is_free = FALSE

\* The JOIN and WHERE of qSubs: teacher s is a candidate for class c.
Eligible(s, c) ==
    /\ IsPresent(s)
    /\ SqlNe(Lower(s.teacher_id), Lower(c.absent_teacher_id))
    /\ (HasFreeEntry(s, c) \/ ~HasBusyEntry(s, c))

\* LEFT JOIN subjects_agg sa: the matching rows, or one row of NULLs.
LeftJoinSubjectsAgg(s) ==
    LET agg == { sa \in subjectsAggCTE : SqlEq(Lower(sa.teacher_id), Lower(s.teacher_id)) }
    IN  IF agg = {} THEN { [teacher_id |-> Null, subjects_codes |-> Null, subjects_detail |-> Null] }
        ELSE agg

\* The rows of qSubs before ORDER BY.
SubsRows(id, day) ==
    { [absent_teacher_id |-> t[1].absent_teacher_id,
       slot_id |-> t[1].slot_id,
       time_range |-> t[1].time_range,
       class_to_cover |-> t[1].class_to_cover,
       room_location |-> t[1].room_location,
       substitute_teacher_id |-> t[2].teacher_id,
       substitute_teacher_name |-> t[2].teacher_name,
       subjects_codes |-> IfNull(t[3].subjects_codes, <<>>),
       subjects_detail |-> IfNull(t[3].subjects_detail, <<>>),
       substitution_priority |-> substitution_priority(t[2], t[1])]
      : t \in UNION { { <<c, s, sa>> : sa \in LeftJoinSubjectsAgg(s) }
                      : <<c, s>> \in { p \in CoverageRows(id, day) \X teacher_attendance :
                                        Eligible(p[2], p[1]) } } }

\* SortsBefore with the priority term left out.
SortsBeforeByName(a, b) ==
    \/ a.slot_id < b.slot_id
    \/ /\ a.slot_id = b.slot_id
       /\ TextLess(a.substitute_teacher_name, b.substitute_teacher_name)

\* ORDER BY c.slot_id, (substitution_priority = 'BEST FIT (Same Subject)') DESC,
\* s.teacher_name: row a sorts strictly before row b.
SortsBefore(a, b) ==
    \/ a.slot_id < b.slot_id
    \/ /\ a.slot_id = b.slot_id
       /\ a.substitution_priority = BestFit /\ b.substitution_priority /= BestFit
    \/ /\ a.slot_id = b.slot_id
       /\ (a.substitution_priority = BestFit) = (b.substitution_priority = BestFit)
       /\ TextLess(a.substitute_teacher_name, b.substitute_teacher_name)

\* Every sequence that holds each row of S once and respects the ORDER BY;
\* rows that compare equal come in any order.
RECURSIVE Ordered(_)
Ordered(S) ==
    IF S = {} THEN { <<>> }
    ELSE UNION { { <<r>> \o rest : rest \in Ordered(S \ {r}) }
                 : r \in { x \in S : \A y \in S : ~SortsBefore(y, x) } }

\* qSubs: the possible results of the candidate query.
qSubs(id, day) == Ordered(SubsRows(id, day))

(***************************************************************************)
(* The grouping of findSubstitutes                                         *)
(***************************************************************************)
\* A value in a template literal: null prints as "null".
JsText(v) == IF v = Null THEN <<"n", "u", "l", "l">> ELSE v

\* `${row.slot_id}|${row.class_to_cover}` (slot ids have one digit)
KeyOf(row) == <<Digits[row.slot_id + 1], "|">> \o JsText(row.class_to_cover)

\* The coverage slot byKey.set stores for a row of classes.
CoverageSlot(row) ==
    [slot_id |-> row.slot_id,
     slot |-> row.time_range,
     class_info |-> row.class_to_cover,
     subject |-> extractSubjectCode(row.class_to_cover),
     room |-> IF Falsy(row.room_location) THEN Null ELSE row.room_location,
     is_lab |-> row.is_lab,
     available_substitutes |-> <<>>]

\* The first loop: the rows of classes whose key is not stored yet, in order.
RECURSIVE SeedRows(_, _)
SeedRows(rows, keys) ==
    IF rows = <<>> THEN <<>>
    ELSE IF KeyOf(Head(rows)) \in keys THEN SeedRows(Tail(rows), keys)
    ELSE <<Head(rows)>> \o SeedRows(Tail(rows), keys \cup {KeyOf(Head(rows))})

\* Candidate reading absent_teacher_id where it should read substitute_teacher_id.
CandidateOfAbsentColumn(s) ==
    [substitute_id |-> s.absent_teacher_id,
     substitute_name |-> s.substitute_teacher_name,
     priority |-> s.substitution_priority,
     subjects_codes |-> s.subjects_codes,
     subjects_detail |-> s.subjects_detail]

\* The entry pushed for a row of subs.
Candidate(s) ==
    [substitute_id |-> s.substitute_teacher_id,
     substitute_name |-> s.substitute_teacher_name,
     priority |-> s.substitution_priority,
     subjects_codes |-> s.subjects_codes,
     subjects_detail |-> s.subjects_detail]

\* The second loop: the rows of subs with the key, pushed in order.
RECURSIVE Pushed(_, _)
Pushed(subs, key) ==
    IF subs = <<>> THEN <<>>
    ELSE IF KeyOf(Head(subs)) = key THEN <<Candidate(Head(subs))>> \o Pushed(Tail(subs), key)
    ELSE Pushed(Tail(subs), key)

\* InsertBySlot with the comparator's operands swapped (b.slot_id - a.slot_id).
RECURSIVE InsertBySlotDescending(_, _)
InsertBySlotDescending(e, sorted) ==
    IF sorted = <<>> THEN <<e>>
    ELSE IF e.slot_id > Head(sorted).slot_id THEN <<e>> \o sorted
    ELSE <<Head(sorted)>> \o InsertBySlotDescending(e, Tail(sorted))

\* Array.prototype.sort((a,b) => a.slot_id - b.slot_id): stable, ascending.
RECURSIVE InsertBySlot(_, _)
InsertBySlot(e, sorted) ==
    IF sorted = <<>> THEN <<e>>
    ELSE IF e.slot_id < Head(sorted).slot_id THEN <<e>> \o sorted
    ELSE <<Head(sorted)>> \o InsertBySlot(e, Tail(sorted))

RECURSIVE SortBySlot(_)
SortBySlot(entries) ==
    IF entries = <<>> THEN <<>>
    ELSE InsertBySlot(entries[Len(entries)], SortBySlot(SubSeq(entries, 1, Len(entries) - 1)))

\* The schedule findSubstitutes builds from the two query results.
Schedule(cls, subs) ==
    LET seeds == SeedRows(cls, {})
    IN  SortBySlot([i \in 1..Len(seeds) |->
                       [CoverageSlot(seeds[i]) EXCEPT
                           !.available_substitutes = Pushed(subs, KeyOf(seeds[i]))]])

(***************************************************************************)
(* Bounds and inputs                                                       *)
(***************************************************************************)
\* The most rows a timetable of the model holds.
MaxRows == 4

\* The most spaces put before and after a day word.
MaxPad == 2

\* GET /api/substitute/:teacherId/:day requests: <<teacherId, day>>.
SubstituteRequests ==
    { <<t1, <<"m", "o", "n", "d", "a", "y">>>>,
      <<t1, <<"T", "u", "e">>>>,
      <<<<" ", "t", "3">>, MON>>,
      <<t9, Mon>>,
      <<<<" ">>, MON>>,
      <<t1, <<" ">>>> }

\* POST /api/attendance requests: <<teacherId, status>>.
AttendanceRequests ==
    { <<T1, <<"P", "r", "e", "s", "e", "n", "t", " ">>>>,
      <<t2, <<" ", "L", "e", "a", "v", "e">>>>,
      <<T3, <<"a", "b", "s", "e", "n", "t">>>>,
      <<t9, <<"A", "B", "S", "E", "N", "T">>>>,
      <<T1, <<>>>> }

(***************************************************************************)
(* The invocation of findSubstitutes                                       *)
(***************************************************************************)
Undefined == "undefined"

NoResult ==
    [kind |-> "none", message |-> "", absentName |-> Null,
     absentTeacherSubjectDetail |-> Null, schedule |-> <<>>, note |-> Undefined]

\* A returned report.
Report(name, detail, schedule, note) ==
    [kind |-> "report", message |-> "", absentName |-> name,
     absentTeacherSubjectDetail |-> detail, schedule |-> schedule, note |-> note]

\* A thrown error.
Thrown(message) == [NoResult EXCEPT !.kind = "error", !.message = message]

\* The route's own 400 response, sent without calling findSubstitutes.
Rejected(message) == [NoResult EXCEPT !.kind = "rejected", !.message = message]

NoCall == [absentTeacherIdRaw |-> Null, targetDayRaw |-> Null, result |-> NoResult]

TeacherIdLabel(id) == <<"T", "e", "a", "c", "h", "e", "r", " ", "I", "D", ":", " ">> \o id

\* isAbsent with the comparison to 'ABSENT' left out.
isAbsentWheneverFound == attRows /= <<>>

\* const isAbsent
isAbsent == attRows /= <<>> /\ Upper(Trim(IfNull(attRows[1].attendance, <<>>))) = <<"A", "B", "S", "E", "N", "T">>

\* const absentTeacherName
absentTeacherName ==
    IF Falsy(attRows[1].teacher_name) THEN TeacherIdLabel(absentTeacherId)
    ELSE attRows[1].teacher_name

QueryFailedMessage == "Database query failed during substitution search."

\* The error the store's driver raises when a read fails.
DriverError == "driver error"

\* NoClassesReport with a note, as the two short-circuit reports carry one.
NoClassesReportWithNote ==
    Report(absentTeacherName, absentTeacherSubjectDetail, <<>>, "No classes found")

\* The report returned when the coverage-seed query finds no row.
NoClassesReport == Report(absentTeacherName, absentTeacherSubjectDetail, <<>>, Undefined)

Idle ==
    /\ pc = "idle"
    /\ absentTeacherIdRaw = Null /\ targetDayRaw = Null
    /\ absentTeacherId = Null /\ targetDay = Null
    /\ attRows = <<>> /\ absentTeacherSubjectDetail = Null /\ classes = <<>>
    /\ issued = <<>> /\ failedQuery = "none" /\ result = NoResult

store == <<teacher_attendance, teacher_timetable>>
locals == <<absentTeacherIdRaw, targetDayRaw, absentTeacherId, targetDay>>
dayCall == <<dayIn, dayOut>>

\* The route up to its call of findSubstitutes, and findSubstitutes up to its
\* first query.
SubstituteRoute(teacherIdParam, dayParam) ==
    /\ pc = "idle"
    /\ LET routeId == Upper(teacherIdParam)
           routeDay == normalizeDay(dayParam)
           id == Trim(routeId)
           day == normalizeDay(routeDay)
       IN  IF Falsy(routeId) \/ Falsy(routeDay)
           THEN /\ pc' = "failed"
                /\ result' = Rejected(IF Falsy(routeId) THEN "Missing teacherId param."
                                      ELSE "Missing or invalid day param.")
                /\ UNCHANGED locals
           ELSE /\ absentTeacherIdRaw' = routeId
                /\ targetDayRaw' = routeDay
                /\ absentTeacherId' = id
                /\ targetDay' = day
                /\ IF Falsy(id) THEN pc' = "failed" /\ result' = Thrown("Invalid absent teacher ID.")
                   ELSE IF Falsy(day) THEN pc' = "failed" /\ result' = Thrown("Invalid or missing day.")
                   ELSE pc' = "qAttendance" /\ result' = result
    /\ UNCHANGED <<store, attRows, absentTeacherSubjectDetail, classes, issued,
                   failedQuery, previous, dayCall>>

\* A read of the store fails before the try block: the error propagates as it is.
LookupFails ==
    /\ pc \in {"qAttendance", "qAbsentTeacherInfo"}
    /\ issued' = Append(issued, pc)
    /\ failedQuery' = pc
    /\ result' = Thrown(DriverError)
    /\ pc' = "failed"
    /\ UNCHANGED <<store, locals, attRows, absentTeacherSubjectDetail, classes, previous, dayCall>>

\* A read of the store fails inside the try block: the catch wraps it.
SearchFails ==
    /\ pc \in {"qClasses", "qSubs"}
    /\ issued' = Append(issued, pc)
    /\ failedQuery' = pc
    /\ result' = Thrown(QueryFailedMessage)
    /\ pc' = "failed"
    /\ UNCHANGED <<store, locals, attRows, absentTeacherSubjectDetail, classes, previous, dayCall>>

AttendanceLookup ==
    /\ pc = "qAttendance"
    /\ issued' = Append(issued, "qAttendance")
    /\ \E rows \in qAttendance(absentTeacherId) :
          /\ attRows' = rows
          /\ IF rows = <<>>
             THEN /\ result' = Report(TeacherIdLabel(absentTeacherId), NotAvailable, <<>>,
                                      "Teacher not found")
                  /\ pc' = "done"
             ELSE /\ result' = result
                  /\ pc' = "qAbsentTeacherInfo"
    /\ UNCHANGED <<store, locals, absentTeacherSubjectDetail, classes, failedQuery, previous, dayCall>>

AbsentTeacherInfoLookup ==
    /\ pc = "qAbsentTeacherInfo"
    /\ issued' = Append(issued, "qAbsentTeacherInfo")
    /\ \E absentInfo \in qAbsentTeacherInfo(absentTeacherId) :
          LET detail == IF absentInfo /= <<>> THEN absentInfo[1].absent_teacher_subject_detail
                        ELSE NotAvailable
          IN  /\ absentTeacherSubjectDetail' = detail
              /\ IF ~isAbsent
                 THEN /\ result' = Report(absentTeacherName, detail, <<>>,
                                          "Teacher is not marked as ABSENT in attendance table")
                      /\ pc' = "done"
                 ELSE /\ result' = result
                      /\ pc' = "qClasses"
    /\ UNCHANGED <<store, locals, attRows, classes, failedQuery, previous, dayCall>>

ClassesQuery ==
    /\ pc = "qClasses"
    /\ issued' = Append(issued, "qClasses")
    /\ \E rows \in qClasses(absentTeacherId, targetDay) :
          /\ classes' = rows
          /\ IF rows = <<>>
             THEN /\ result' = NoClassesReport
                  /\ pc' = "done"
             ELSE /\ result' = result
                  /\ pc' = "qSubs"
    /\ UNCHANGED <<store, locals, attRows, absentTeacherSubjectDetail, failedQuery, previous, dayCall>>

SubsQuery ==
    /\ pc = "qSubs"
    /\ issued' = Append(issued, "qSubs")
    /\ \E subs \in qSubs(absentTeacherId, targetDay) :
          result' = Report(absentTeacherName, absentTeacherSubjectDetail,
                           Schedule(classes, subs), Undefined)
    /\ pc' = "done"
    /\ UNCHANGED <<store, locals, attRows, absentTeacherSubjectDetail, classes, failedQuery,
                   previous, dayCall>>

Reset ==
    /\ pc' = "idle"
    /\ absentTeacherIdRaw' = Null /\ targetDayRaw' = Null
    /\ absentTeacherId' = Null /\ targetDay' = Null
    /\ attRows' = <<>> /\ absentTeacherSubjectDetail' = Null /\ classes' = <<>>
    /\ issued' = <<>> /\ failedQuery' = "none" /\ result' = NoResult

\* The route sends its response; the invocation is over.
Respond ==
    /\ pc \in {"done", "failed"}
    /\ Reset
    /\ UNCHANGED <<store, previous, dayCall>>

\* Respond, remembering the invocation for a comparison with the next one.
RespondRemembered ==
    /\ pc \in {"done", "failed"}
    /\ previous' = [absentTeacherIdRaw |-> absentTeacherIdRaw, targetDayRaw |-> targetDayRaw,
                    result |-> result]
    /\ Reset
    /\ UNCHANGED <<store, dayCall>>

(***************************************************************************)
(* POST /api/attendance                                                    *)
(***************************************************************************)
\* UPDATE teacher_attendance SET attendance = ? WHERE teacher_id = ?
SetAttendance(table, teacherId, normalized) ==
    { IF SqlEq(r.teacher_id, teacherId) THEN [r EXCEPT !.attendance = normalized] ELSE r
      : r \in table }

\* The handler runs while no findSubstitutes invocation is between its last
\* query and its response: that stretch has no await.
AttendanceRoute(teacherId, status) ==
    /\ pc \notin {"done", "failed"}
    /\ teacher_attendance' =
          IF Falsy(teacherId) \/ Falsy(status) \/ Len(teacherId) > 50 THEN teacher_attendance
          ELSE SetAttendance(teacher_attendance, teacherId, Trim(status))
    /\ UNCHANGED <<teacher_timetable, pc, locals, attRows, absentTeacherSubjectDetail, classes,
                   issued, failedQuery, result, previous, dayCall>>

(***************************************************************************)
(* Specifications                                                          *)
(***************************************************************************)
Timetables == { S \in SUBSET TimetableRows : Cardinality(S) <= MaxRows /\ UniqueEntries(S) }

NotCalled == <<"NOT CALLED">>

Init ==
    /\ teacher_attendance = InitialAttendance
    /\ teacher_timetable \in Timetables
    /\ Idle
    /\ previous = NoCall
    /\ dayIn = Null /\ dayOut = NotCalled

Next ==
    \/ \E r \in SubstituteRequests : SubstituteRoute(r[1], r[2])
    \/ LookupFails
    \/ SearchFails
    \/ AttendanceLookup
    \/ AbsentTeacherInfoLookup
    \/ ClassesQuery
    \/ SubsQuery
    \/ Respond
    \/ \E r \in AttendanceRequests : AttendanceRoute(r[1], r[2])

Spec == Init /\ [][Next]_vars

\* The attendance tables the attendance route can produce.
AttendanceStates ==
    { InitialAttendance,
      SetAttendance(InitialAttendance, T1, <<"P", "r", "e", "s", "e", "n", "t">>),
      SetAttendance(InitialAttendance, t2, <<"L", "e", "a", "v", "e">>),
      SetAttendance(SetAttendance(InitialAttendance, T1, <<"P", "r", "e", "s", "e", "n", "t">>),
                    t2, <<"L", "e", "a", "v", "e">>) }

\* Invocations one after another against a store nothing writes.
InitTwice ==
    /\ teacher_attendance \in AttendanceStates
    /\ teacher_timetable \in { S \in Timetables : Cardinality(S) < MaxRows }
    /\ Idle
    /\ previous = NoCall
    /\ dayIn = Null /\ dayOut = NotCalled

NextTwice ==
    \/ \E r \in SubstituteRequests : SubstituteRoute(r[1], r[2])
    \/ LookupFails
    \/ SearchFails
    \/ AttendanceLookup
    \/ AbsentTeacherInfoLookup
    \/ ClassesQuery
    \/ SubsQuery
    \/ RespondRemembered

SpecTwice == InitTwice /\ [][NextTwice]_vars

\* Calls of normalizeDay on day words in several spellings, padded with spaces.
Pad(n) == [i \in 1..n |-> " "]

DayWords ==
    { <<"t", "h", "u">>, <<"T", "H", "U", "R">>, <<"T", "h", "u", "r", "s">>,
      <<"t", "h", "u", "r", "s", "d", "a", "y">>, <<"T", "H", "U", "R", "S", "D", "A", "Y">>,
      <<"T", "H", "U", "R", "S", "D", "A", "Y", "S">>, <<"t", "h">>, <<"T">>,
      <<"m", "o", "n", "d", "a", "y">>, <<"M", "O", "N">>, <<"T", "u", "e">>,
      <<"f", "r">>, <<"s", " ", "a", "t">>, <<"t", "h", " ", "u">>, <<>> }

DayInputs ==
    { Pad(l) \o w \o Pad(r) : l \in 0..MaxPad, r \in 0..MaxPad, w \in DayWords } \cup { Null }

InitDay ==
    /\ teacher_attendance = InitialAttendance
    /\ teacher_timetable = {}
    /\ Idle
    /\ previous = NoCall
    /\ dayIn \in DayInputs
    /\ dayOut = NotCalled

NormalizeDayCall ==
    /\ dayOut = NotCalled
    /\ dayOut' = normalizeDay(dayIn)
    /\ UNCHANGED <<store, pc, locals, attRows, absentTeacherSubjectDetail, classes, issued,
                   failedQuery, result, previous, dayIn>>

NextDay == NormalizeDayCall

SpecDay == InitDay /\ [][NextDay]_vars

(***************************************************************************)
(* Properties                                                              *)
(***************************************************************************)
Reported == pc = "done" /\ result.kind = "report"

\* The attendance lookup found the teacher, with an attendance that is,
\* trimmed and upper-cased, ABSENT.
MarkedAbsent ==
    /\ attRows /= <<>>
    /\ attRows[1].attendance /= Null
    /\ Upper(Trim(attRows[1].attendance)) = <<"A", "B", "S", "E", "N", "T">>

\* The rows of teacher_attendance the invocation's identifier matches.
MatchingTeachers ==
    { r \in teacher_attendance : Lower(r.teacher_id) = Lower(absentTeacherId) }

\* The candidates listed for the i-th coverage slot of the report.
ListOf(i) == result.schedule[i].available_substitutes

Listed(teacherId, i) ==
    \E j \in 1..Len(ListOf(i)) : ListOf(i)[j].substitute_id = teacherId

\* C1: in a report with a non-empty schedule no candidate list holds an
\* entry whose substitute_id is, ignoring case, the absent teacher's identifier.
C1_NoSelfSubstitute ==
    (Reported /\ result.schedule /= <<>>) =>
        \A i \in 1..Len(result.schedule) : \A j \in 1..Len(ListOf(i)) :
            Lower(ListOf(i)[j].substitute_id) /= Lower(absentTeacherId)

\* A report with candidates, returned while the store marks the teacher the
\* report is about as present again.
C1_Witness ==
    /\ Reported
    /\ \E i \in 1..Len(result.schedule) : ListOf(i) /= <<>>
    /\ \E r \in MatchingTeachers : IsPresent(r)

\* The timetable entries of a teacher for the target day and a slot.
EntriesOf(teacherId, slotId) ==
    { tt \in teacher_timetable :
        /\ Lower(tt.teacher_id) = Lower(teacherId)
        /\ Upper(tt.day_of_week) = Upper(targetDay)
        /\ tt.slot_id = slotId }

\* C2: for every coverage slot (target day D, slot S) and every teacher T other
\* than the absent one, T is in the slot's candidate list exactly if T's
\* attendance, trimmed and upper-cased, is PRESENT and T has either an explicit
\* free entry for (D, S) or no entry at all for (D, S).
C2_CandidatesAreThePresentAndFree ==
    Reported =>
        \A i \in 1..Len(result.schedule) :
            \A r \in teacher_attendance \ MatchingTeachers :
                Listed(r.teacher_id, i) <=>
                    /\ Upper(Trim(r.attendance)) = <<"P", "R", "E", "S", "E", "N", "T">>
                    /\ \/ \E tt \in EntriesOf(r.teacher_id, result.schedule[i].slot_id) : tt.is_free
                       \/ EntriesOf(r.teacher_id, result.schedule[i].slot_id) = {}

\* A report of two slots where a present teacher is busy in one slot, and so
\* not listed for it, and listed for the other.
C2_Witness ==
    /\ Reported
    /\ \E i, k \in 1..Len(result.schedule) :
          \E r \in teacher_attendance \ MatchingTeachers :
              /\ IsPresent(r)
              /\ \E tt \in EntriesOf(r.teacher_id, result.schedule[i].slot_id) : ~tt.is_free
              /\ ~Listed(r.teacher_id, i)
              /\ Listed(r.teacher_id, k)

\* C3: in every candidate list every BEST FIT entry comes before every GOOD
\* FIT entry, and among entries of one priority the names are ascending.
C3_BestFirstThenByName ==
    Reported =>
        \A i \in 1..Len(result.schedule) :
            \A j, k \in 1..Len(ListOf(i)) :
                j < k =>
                    /\ ~(ListOf(i)[j].priority = GoodFit /\ ListOf(i)[k].priority = BestFit)
                    /\ ListOf(i)[j].priority = ListOf(i)[k].priority =>
                          ~TextLess(ListOf(i)[k].substitute_name, ListOf(i)[j].substitute_name)

\* A list where a BEST FIT entry precedes a GOOD FIT entry of a smaller name,
\* which precedes a GOOD FIT entry of a greater name.
C3_Witness ==
    /\ Reported
    /\ \E i \in 1..Len(result.schedule) :
          /\ Len(ListOf(i)) = 3
          /\ ListOf(i)[1].priority = BestFit
          /\ ListOf(i)[2].priority = GoodFit
          /\ ListOf(i)[3].priority = GoodFit
          /\ TextLess(ListOf(i)[2].substitute_name, ListOf(i)[1].substitute_name)
          /\ TextLess(ListOf(i)[2].substitute_name, ListOf(i)[3].substitute_name)

\* The non-free timetable entries of the invocation's teacher on the target day.
NonFreeEntries ==
    { tt \in teacher_timetable :
        /\ Lower(tt.teacher_id) = Lower(absentTeacherId)
        /\ Upper(tt.day_of_week) = Upper(targetDay)
        /\ ~tt.is_free }

PairOf(tt) == <<tt.slot_id, tt.activity_description>>

C5_OneFailureForEveryRead ==
    failedQuery /= "none" =>
        /\ pc = "failed"
        /\ result = Thrown(QueryFailedMessage)
        /\ issued[Len(issued)] = failedQuery
        /\ \A n \in 1..(Len(issued) - 1) : issued[n] /= failedQuery

\* Query q was issued by the invocation.
InIssued(q) == \E n \in 1..Len(issued) : issued[n] = q

\* C6: for an unknown teacher, and for a known teacher whose attendance is not
\* ABSENT, the invocation returns a report with an empty schedule and issues
\* neither the coverage-seed nor the candidate query; these two are issued only
\* once the attendance lookup has found the teacher marked ABSENT.
C6_NoSearchUnlessAbsent ==
    /\ (pc \in {"qClasses", "qSubs"} \/ InIssued("qClasses") \/ InIssued("qSubs"))
          => (InIssued("qAttendance") /\ attRows /= <<>> /\ MarkedAbsent /\ MatchingTeachers /= {})
    /\ (pc = "done" /\ (MatchingTeachers = {} \/ ~MarkedAbsent))
          => (result.kind = "report" /\ result.schedule = <<>>
              /\ ~InIssued("qClasses") /\ ~InIssued("qSubs"))
    /\ (pc = "failed" /\ failedQuery = "none") => issued = <<>>

\* A report with an empty schedule for a known teacher who is not absent and
\* has non-free entries on the target day.
C6_Witness ==
    /\ Reported
    /\ attRows /= <<>> /\ ~MarkedAbsent
    /\ NonFreeEntries /= {}
    /\ result.schedule = <<>>

\* C7: the report carries the note "Teacher not found" exactly when the teacher
\* is unknown, the not-marked-as-ABSENT note exactly when the teacher is known
\* and not absent, and no note when the teacher is known and absent.
C7_NoteOnlyOnShortCircuit ==
    Reported =>
        /\ result.note = "Teacher not found" <=> MatchingTeachers = {}
        /\ result.note = "Teacher is not marked as ABSENT in attendance table"
              <=> (MatchingTeachers /= {} /\ ~MarkedAbsent)
        /\ (MatchingTeachers /= {} /\ MarkedAbsent) => result.note = Undefined

\* A report without a note and with an empty schedule for a known, absent
\* teacher who has no non-free entry on the target day.
C7_Witness ==
    /\ Reported
    /\ MatchingTeachers /= {} /\ MarkedAbsent
    /\ NonFreeEntries = {}
    /\ result.schedule = <<>> /\ result.note = Undefined

\* C8: two invocations with the same arguments against an unchanged store
\* return identical reports.
C8_SameReportTwice ==
    (/\ Reported
     /\ previous.result.kind = "report"
     /\ previous.absentTeacherIdRaw = absentTeacherIdRaw
     /\ previous.targetDayRaw = targetDayRaw)
        => previous.result = result

\* C9 as stated: a non-empty input that is, trimmed and upper-cased, a Thursday
\* spelling gives THUR; any other non-empty input gives the upper-cased first
\* three characters of the input; an empty or absent input is returned as it is.
C9_FirstThreeOfInput ==
    dayOut /= NotCalled =>
        IF Falsy(dayIn) THEN dayOut = dayIn
        ELSE IF Upper(Trim(dayIn)) \in ThursdaySpellings THEN dayOut = <<"T", "H", "U", "R">>
        ELSE /\ Len(dayOut) = (IF Len(dayIn) < 3 THEN Len(dayIn) ELSE 3)
             /\ \A n \in 1..Len(dayOut) : dayOut[n] = UpperChar(dayIn[n])

\* C9 as amended: any other non-empty input gives the first three characters
\* of the input with its surrounding whitespace removed, upper-cased.
C9_FirstThreeOfTrimmedInput ==
    dayOut /= NotCalled =>
        IF Falsy(dayIn) THEN dayOut = dayIn
        ELSE IF Upper(Trim(dayIn)) \in ThursdaySpellings THEN dayOut = <<"T", "H", "U", "R">>
        ELSE LET core == Trim(dayIn)
             IN  /\ Len(dayOut) = (IF Len(core) < 3 THEN Len(core) ELSE 3)
                 /\ \A n \in 1..Len(dayOut) : dayOut[n] = UpperChar(core[n])

\* A call on a day word with spaces before it that is no Thursday spelling.
C9_Witness ==
    /\ dayOut = <<"M", "O", "N">>
    /\ dayIn /= <<>> /\ Head(dayIn) = " "

\* C10: a candidate's priority is BEST FIT exactly if the candidate has a
\* subject assignment whose code, trimmed and upper-cased, is the subject field
\* of the coverage slot.
C10_TierAgreesWithSubjectField ==
    Reported =>
        \A i \in 1..Len(result.schedule) : \A j \in 1..Len(ListOf(i)) :
            ListOf(i)[j].priority = BestFit <=>
                \E tsa \in teacher_subject_assignment :
                    /\ Lower(tsa.teacher_id) = Lower(ListOf(i)[j].substitute_id)
                    /\ Upper(Trim(tsa.subject_code)) = result.schedule[i].subject

====
